---- MODULE Spec2Model ----
(***************************************************************************)
(* Model of 04_analysis_villin.py: the Villin folding analysis script.     *)
(* The script is a straight-line sequence of statements with two loops     *)
(* building PLUMED groups and pair CVs, one loop merging simulation lists, *)
(* and one try/except around data.dropDimensions.  Each statement (or loop *)
(* iteration) is one action; any library call may raise.                   *)
(***************************************************************************)
EXTENDS Integers, Sequences, FiniteSets, TLC

\* ---------------------------------------------------------------- bounds
MaxRes == 35         \* longest molecule loaded (residues with a CA atom)
MaxDirs == 2         \* dataset directories that may exist under villin/datasets/
MaxTraj == 1         \* trajectory folders per dataset directory

\* ---------------------------------------------------- program constants
FirstResid == 42
Fstep == 1           \* data.fstep = .1 ns, in units of 0.1 ns
StructFile == "villin/datasets/1/filtered/filtered.pdb"
OutFile == "villin_data.save"
hydrophobic_resnames == {"ALA","VAL","ILE","LEU","MET","PHE","TYR","TRP","NLE"}
last3CV == <<136, 137, 138>>

\* ------------------------------------------------------------- inputs
\* Residue names of the villin headpiece NLE double mutant, residues 42-76.
VillinSeq ==
  <<"LEU","SER","ASP","GLU","ASP","PHE","LYS","ALA","VAL","PHE","GLY","MET",
    "THR","ARG","SER","ALA","PHE","ALA","ASN","LEU","PRO","LEU","TRP","NLE",
    "GLN","GLN","HIS","LEU","NLE","LYS","GLU","LYS","GLY","LEU","PHE">>

\* Molecules the script may be given: the first n residues of the chain
\* (the chain repeats past its end).
Molecule(n) ==
  [i \in 1..n |-> [resid   |-> FirstResid + i - 1,
                   resname |-> VillinSeq[((i - 1) % Len(VillinSeq)) + 1]]]

Dirs == 1..MaxDirs
\* frames of a complete trajectory, and of one that was cut short
FullLen == 500
ShortLen == FullLen - 1

\* lengths of n projected trajectories: all complete, or one of them cut short
TrajLengths(n) ==
  {[i \in 1..n |-> IF i = short THEN ShortLen ELSE FullLen] : short \in 0..n}

\* ------------------------------------------------------------ helpers
RECURSIVE Digits(_)
\* str(k) for a non-negative int: its decimal digits, no padding
Digits(k) == IF k < 10 THEN <<k>> ELSE Digits(k \div 10) \o <<k % 10>>

\* "<pre>_{}".format(k)
Format(pre, k) == [pre |-> pre, num |-> Digits(k)]

RECURSIVE SelectIdx(_, _, _)
\* s[mask] of numpy: the elements of s at the positions where mask is TRUE
SelectIdx(s, mask, i) ==
  IF i > Len(s) THEN <<>>
  ELSE (IF mask[i] THEN <<s[i]>> ELSE <<>>) \o SelectIdx(s, mask, i + 1)

\* numpy.in1d(mca.resname, hydrophobic_resnames); mca.resid[hyd]
HydResid(mol) ==
  LET hyd == [i \in 1..Len(mol) |-> mol[i].resname \in hydrophobic_resnames]
      picked == SelectIdx(mol, hyd, 1)
  IN  [i \in 1..Len(picked) |-> picked[i].resid]

\* PlumedGroup(m, "hg_{}".format(len(pg)), "resid {} and ...".format(resid))
NewGroup(pgs, resid) == [label |-> Format("hg", Len(pgs)), resid |-> resid]

InnerStartSelf(g) == g
\* range(g1+1, ngroups): first value of g2
InnerStart(g) == g + 1

\* PlumedCV("COORDINATION", GROUPA=pg[g1], GROUPB=pg[g2], label="c_{}"...)
NewPairCV(pgs, a, b, pairs) ==
  [cv |-> "COORDINATION", GROUPA |-> pgs[a + 1], GROUPB |-> pgs[b + 1],
   label |-> Format("c", Len(pairs) + 1)]

\* simlist(glob(s + '/filtered/*/'), StructFile) for a directory with k
\* trajectory folders
simlist(dir, k) ==
  [i \in 1..k |-> [simid |-> i - 1, dir |-> dir, traj |-> i, molfile |-> StructFile]]

\* htmd simmerge: concatenate and renumber simid
simmerge(l1, l2) ==
  IF Len(l1) = 0 THEN l2
  ELSE IF Len(l2) = 0 THEN l1
  ELSE LET all == l1 \o l2
       IN  [i \in 1..Len(all) |-> [all[i] EXCEPT !.simid = i - 1]]

MergeReplace(old, new) == new
\* sims = simmerge(sims, fsims)
MergeStep(old, new) == simmerge(old, new)

\* all orders in which glob may list a set of directories
Perms(S) ==
  {p \in [1..Cardinality(S) -> S] : \A i, j \in 1..Cardinality(S) : i # j => p[i] # p[j]}

Count(s, v) == Cardinality({i \in 1..Len(s) : s[i] = v})

\* most frequent trajectory length (the smallest one on a tie)
Mode(lens) ==
  LET vals == {lens[i] : i \in 1..Len(lens)}
      best == {v \in vals : \A w \in vals : Count(lens, v) >= Count(lens, w)}
  IN  CHOOSE v \in best : \A w \in best : v <= w

NoData == [trajs |-> <<>>, ncols |-> 0, fstep |-> 0]

SuccSwapCV(s) ==
  CASE s = "load"           -> "molinfo"
    [] s = "molinfo"        -> "armsd"
    [] s = "armsd"          -> "rg"
    [] s = "rg"             -> "hyd"
    [] s = "hyd"            -> "pg"
    [] s = "pg"             -> "pairs"
    [] s = "pairs"          -> "hbc"
    [] s = "hbc"            -> "villin_cvs"
    [] s = "villin_cvs"     -> "glob"
    [] s = "glob"           -> "sims"
    [] s = "sims"           -> "metr"
    [] s = "metr"           -> "project"
    [] s = "project"        -> "fstep"
    [] s = "fstep"          -> "save"
    [] s = "save"           -> "printShape"
    [] s = "printShape"     -> "dropTraj"
    [] s = "dropTraj"       -> "dropDimensions"
    [] s = "dropDimensions" -> "cluster"
    [] s = "cluster"        -> "Model"
    [] s = "Model"          -> "plotTimescales"
    [] OTHER                -> "done"

SuccSaveLast(s) ==
  CASE s = "load"           -> "rg"
    [] s = "rg"             -> "molinfo"
    [] s = "molinfo"        -> "armsd"
    [] s = "armsd"          -> "hyd"
    [] s = "hyd"            -> "pg"
    [] s = "pg"             -> "pairs"
    [] s = "pairs"          -> "hbc"
    [] s = "hbc"            -> "villin_cvs"
    [] s = "villin_cvs"     -> "glob"
    [] s = "glob"           -> "sims"
    [] s = "sims"           -> "metr"
    [] s = "metr"           -> "project"
    [] s = "project"        -> "fstep"
    [] s = "fstep"          -> "printShape"
    [] s = "printShape"     -> "dropTraj"
    [] s = "dropTraj"       -> "dropDimensions"
    [] s = "dropDimensions" -> "save"
    [] s = "save"           -> "cluster"
    [] s = "cluster"        -> "Model"
    [] s = "Model"          -> "plotTimescales"
    [] OTHER                -> "done"

\* the statement that follows statement s in the script
Succ(s) ==
  CASE s = "load"           -> "rg"
    [] s = "rg"             -> "molinfo"
    [] s = "molinfo"        -> "armsd"
    [] s = "armsd"          -> "hyd"
    [] s = "hyd"            -> "pg"
    [] s = "pg"             -> "pairs"
    [] s = "pairs"          -> "hbc"
    [] s = "hbc"            -> "villin_cvs"
    [] s = "villin_cvs"     -> "glob"
    [] s = "glob"           -> "sims"
    [] s = "sims"           -> "metr"
    [] s = "metr"           -> "project"
    [] s = "project"        -> "fstep"
    [] s = "fstep"          -> "save"
    [] s = "save"           -> "printShape"
    [] s = "printShape"     -> "dropTraj"
    [] s = "dropTraj"       -> "dropDimensions"
    [] s = "dropDimensions" -> "cluster"
    [] s = "cluster"        -> "Model"
    [] s = "Model"          -> "plotTimescales"
    [] OTHER                -> "done"

\* ---------------------------------------------------------------- state
VARIABLES
  pc,           \* the statement about to run, or "done" / "aborted"
  trace,        \* statements completed so far, in completion order
  raised,       \* statements that raised an exception
  mca,          \* residues of the loaded structure (one CA atom each)
  hyd_resid,    \* resids of the hydrophobic residues
  pg,           \* PlumedGroup objects
  ngroups,
  g1, g2,       \* loop indices of the pair loop
  group_pairs,  \* COORDINATION CVs
  hbc,          \* hydrophobic_contacts_sum
  villin_cvs,   \* statements handed to MetricPlumed2
  fs,           \* dataset directories on disk -> number of trajectory folders
  sets, si,     \* glob result and position of the loop over it
  sims,
  data,         \* the MetricData object
  file,         \* villin_data.save on disk
  writes        \* completed data.save calls

vars == <<pc, trace, raised, mca, hyd_resid, pg, ngroups, g1, g2, group_pairs,
          hbc, villin_cvs, fs, sets, si, sims, data, file, writes>>

cvVars   == <<mca, hyd_resid, pg, ngroups, g1, g2, group_pairs, hbc, villin_cvs>>
simVars  == <<fs, sets, si, sims>>
dataVars == <<data, file, writes>>

Init ==
  /\ pc = "load"
  /\ trace = <<>>
  /\ raised = {}
  /\ mca = <<>>
  /\ hyd_resid = <<>>
  /\ pg = <<>>
  /\ ngroups = 0
  /\ g1 = 0
  /\ g2 = 0
  /\ group_pairs = <<>>
  /\ hbc = [cv |-> "none", ARG |-> <<>>, label |-> Format("none", 0)]
  /\ villin_cvs = <<>>
  /\ fs = <<>>
  /\ sets = <<>>
  /\ si = 1
  /\ sims = <<>>
  /\ data = NoData
  /\ file = [state |-> "absent", name |-> OutFile, content |-> NoData]
  /\ writes = 0

\* statement s finished normally; control moves to the next statement
Complete(s) ==
  /\ pc' = Succ(s)
  /\ trace' = Append(trace, s)
  /\ UNCHANGED raised

\* --------------------------------------------------------------- actions
\* m=Molecule(...); mca=m.copy(); mca.filter("name CA")
Load ==
  /\ pc = "load"
  /\ \E n \in 0..MaxRes : mca' = Molecule(n)
  /\ Complete("load")
  /\ UNCHANGED <<hyd_resid, pg, ngroups, g1, g2, group_pairs, hbc, villin_cvs>>
  /\ UNCHANGED <<simVars, dataVars>>

\* rg=PlumedCV("GYRATION",ATOMS=mca,label="rg")
Rg ==
  /\ pc = "rg"
  /\ Complete("rg")
  /\ UNCHANGED <<cvVars, simVars, dataVars>>

\* m_no_nle = ...; molinfo = PlumedMolinfo(m_no_nle)
Molinfo ==
  /\ pc = "molinfo"
  /\ Complete("molinfo")
  /\ UNCHANGED <<cvVars, simVars, dataVars>>

\* armsd=PlumedCV("ALPHARMSD",...)
Armsd ==
  /\ pc = "armsd"
  /\ Complete("armsd")
  /\ UNCHANGED <<cvVars, simVars, dataVars>>

\* hyd=numpy.in1d(...); hyd_resid=mca.resid[hyd]; pg=[]
Hyd ==
  /\ pc = "hyd"
  /\ hyd_resid' = HydResid(mca)
  /\ pg' = <<>>
  /\ Complete("hyd")
  /\ UNCHANGED <<mca, ngroups, g1, g2, group_pairs, hbc, villin_cvs>>
  /\ UNCHANGED <<simVars, dataVars>>

\* one iteration of: for resid in hyd_resid: pg.append(PlumedGroup(...))
PgAppend ==
  /\ pc = "pg"
  /\ Len(pg) < Len(hyd_resid)
  /\ pg' = Append(pg, NewGroup(pg, hyd_resid[Len(pg) + 1]))
  /\ UNCHANGED <<pc, trace, raised>>
  /\ UNCHANGED <<mca, hyd_resid, ngroups, g1, g2, group_pairs, hbc, villin_cvs>>
  /\ UNCHANGED <<simVars, dataVars>>

\* loop exhausted; ngroups=len(pg); group_pairs=[]; first g1, g2
PgDone ==
  /\ pc = "pg"
  /\ Len(pg) = Len(hyd_resid)
  /\ ngroups' = Len(pg)
  /\ group_pairs' = <<>>
  /\ g1' = 0
  /\ g2' = InnerStart(0)
  /\ Complete("pg")
  /\ UNCHANGED <<mca, hyd_resid, pg, hbc, villin_cvs>>
  /\ UNCHANGED <<simVars, dataVars>>

\* one iteration of the inner loop: group_pairs.append(PlumedCV(...))
PairAppend ==
  /\ pc = "pairs"
  /\ g1 < ngroups
  /\ g2 < ngroups
  /\ group_pairs' = Append(group_pairs, NewPairCV(pg, g1, g2, group_pairs))
  /\ g2' = g2 + 1
  /\ UNCHANGED <<pc, trace, raised>>
  /\ UNCHANGED <<mca, hyd_resid, pg, ngroups, g1, hbc, villin_cvs>>
  /\ UNCHANGED <<simVars, dataVars>>

\* inner range exhausted: next g1
PairNextOuter ==
  /\ pc = "pairs"
  /\ g1 < ngroups
  /\ g2 >= ngroups
  /\ g1' = g1 + 1
  /\ g2' = InnerStart(g1 + 1)
  /\ UNCHANGED <<pc, trace, raised>>
  /\ UNCHANGED <<mca, hyd_resid, pg, ngroups, group_pairs, hbc, villin_cvs>>
  /\ UNCHANGED <<simVars, dataVars>>

\* outer range exhausted
PairsDone ==
  /\ pc = "pairs"
  /\ g1 >= ngroups
  /\ Complete("pairs")
  /\ UNCHANGED <<cvVars, simVars, dataVars>>

\* hydrophobic_contacts_sum = PlumedCV("COMBINE", ARG=group_pairs, ...)
\* tmp2=MetricPlumed2(hydrophobic_contacts_sum)
Hbc ==
  /\ pc = "hbc"
  /\ hbc' = [cv |-> "COMBINE", ARG |-> group_pairs, label |-> Format("hbc", 0)]
  /\ Complete("hbc")
  /\ UNCHANGED <<mca, hyd_resid, pg, ngroups, g1, g2, group_pairs, villin_cvs>>
  /\ UNCHANGED <<simVars, dataVars>>

\* villin_cvs=MetricPlumed2([molinfo,armsd,rg,hydrophobic_contacts_sum])
VillinCvs ==
  /\ pc = "villin_cvs"
  /\ villin_cvs' = <<"molinfo", "armsd", "rg", "hbc">>
  /\ Complete("villin_cvs")
  /\ UNCHANGED <<mca, hyd_resid, pg, ngroups, g1, g2, group_pairs, hbc>>
  /\ UNCHANGED <<simVars, dataVars>>

\* sets = glob('villin/datasets/*/'); sims = []
Glob ==
  /\ pc = "glob"
  /\ \E present \in SUBSET Dirs :
       \E cnt \in [present -> 0..MaxTraj] :
         \E order \in Perms(present) :
           /\ fs' = cnt
           /\ sets' = order
  /\ sims' = <<>>
  /\ si' = 1
  /\ Complete("glob")
  /\ UNCHANGED <<cvVars, dataVars>>

\* one iteration of: for s in sets: fsims = simlist(...); sims = simmerge(...)
SimsIter ==
  /\ pc = "sims"
  /\ si <= Len(sets)
  /\ sims' = MergeStep(sims, simlist(sets[si], fs[sets[si]]))
  /\ si' = si + 1
  /\ UNCHANGED <<pc, trace, raised, fs, sets>>
  /\ UNCHANGED <<cvVars, dataVars>>

SimsDone ==
  /\ pc = "sims"
  /\ si > Len(sets)
  /\ Complete("sims")
  /\ UNCHANGED <<cvVars, simVars, dataVars>>

\* metr = Metric(sims); metr.set(villin_cvs)
Metr ==
  /\ pc = "metr"
  /\ Complete("metr")
  /\ UNCHANGED <<cvVars, simVars, dataVars>>

\* data = metr.project(): one trajectory per simulation, one column per CV
\* (the COORDINATION CVs, COMBINE, GYRATION, ALPHARMSD)
Project ==
  /\ pc = "project"
  /\ \E lens \in TrajLengths(Len(sims)) :
       data' = [trajs |-> [i \in 1..Len(sims) |-> [sim |-> sims[i].simid, len |-> lens[i]]],
                ncols |-> Len(group_pairs) + 3,
                fstep |-> 0]
  /\ Complete("project")
  /\ UNCHANGED <<cvVars, simVars, file, writes>>

\* data.fstep=.1
FstepSet ==
  /\ pc = "fstep"
  /\ data' = [data EXCEPT !.fstep = Fstep]
  /\ Complete("fstep")
  /\ UNCHANGED <<cvVars, simVars, file, writes>>

\* data.save("villin_data.save")
Save ==
  /\ pc = "save"
  /\ file' = [state |-> "written", name |-> OutFile, content |-> data]
  /\ writes' = writes + 1
  /\ Complete("save")
  /\ UNCHANGED <<cvVars, simVars, data>>

\* print(... data.dat.shape); print(... data.dat[0].shape)
PrintShape ==
  /\ pc = "printShape"
  /\ Len(data.trajs) > 0
  /\ Complete("printShape")
  /\ UNCHANGED <<cvVars, simVars, dataVars>>

\* data.dropTraj(): drop trajectories whose length is not the mode
DropTraj ==
  /\ pc = "dropTraj"
  /\ LET lens == [i \in 1..Len(data.trajs) |-> data.trajs[i].len]
         keep == [i \in 1..Len(lens) |-> lens[i] = Mode(lens)]
     IN  data' = [data EXCEPT !.trajs = SelectIdx(data.trajs, keep, 1)]
  /\ Complete("dropTraj")
  /\ UNCHANGED <<cvVars, simVars, file, writes>>

DropDimensionsUncaught ==
  /\ pc = "dropDimensions"
  /\ LET inRange == \A i \in 1..Len(last3CV) : last3CV[i] < data.ncols
         dropped == [data EXCEPT !.ncols = Len(last3CV)]
     IN  \/ /\ inRange
            /\ data' = dropped
            /\ Complete("dropDimensions")
         \/ /\ data' \in (IF inRange THEN {data, dropped} ELSE {data})
            /\ raised' = raised \cup {"dropDimensions"}
            /\ pc' = "aborted"
            /\ UNCHANGED trace
  /\ UNCHANGED <<cvVars, simVars, file, writes>>

\* last3CV=[136,137,138]
\* try: data.dropDimensions(keep=last3CV)
\* except: pass
\* The call either returns with only the kept columns left, or raises (with
\* the columns dropped or not); a raise is swallowed.
DropDimensions ==
  /\ pc = "dropDimensions"
  /\ LET inRange == \A i \in 1..Len(last3CV) : last3CV[i] < data.ncols
         dropped == [data EXCEPT !.ncols = Len(last3CV)]
     IN  \/ /\ inRange
            /\ data' = dropped
            /\ Complete("dropDimensions")
         \/ /\ data' \in (IF inRange THEN {data, dropped} ELSE {data})
            /\ raised' = raised \cup {"dropDimensions"}
            /\ pc' = Succ("dropDimensions")
            /\ trace' = Append(trace, "dropDimensions")
  /\ UNCHANGED <<cvVars, simVars, file, writes>>

\* data.cluster(MiniBatchKMeans(n_clusters=1000))
Cluster ==
  /\ pc = "cluster"
  /\ Complete("cluster")
  /\ UNCHANGED <<cvVars, simVars, dataVars>>

\* model=Model(data)
BuildModel ==
  /\ pc = "Model"
  /\ Complete("Model")
  /\ UNCHANGED <<cvVars, simVars, dataVars>>

\* model.plotTimescales()
PlotTimescales ==
  /\ pc = "plotTimescales"
  /\ Complete("plotTimescales")
  /\ UNCHANGED <<cvVars, simVars, dataVars>>

\* statements outside any try block
Unguarded ==
  {"load", "rg", "molinfo", "armsd", "hyd", "pg", "pairs", "hbc", "villin_cvs",
   "glob", "sims", "metr", "project", "fstep", "save", "printShape", "dropTraj",
   "cluster", "Model", "plotTimescales"}

FailSwallowDropTraj ==
  /\ pc \in Unguarded
  /\ raised' = raised \cup {pc}
  /\ IF pc = "dropTraj"
       THEN pc' = Succ(pc) /\ trace' = Append(trace, pc)
       ELSE pc' = "aborted" /\ UNCHANGED trace
  /\ \/ UNCHANGED file
     \/ pc = "save" /\ file' = [file EXCEPT !.state = "partial"]
  /\ UNCHANGED <<cvVars, simVars, data, writes>>

\* A statement outside the try block raises: the traceback ends the script.
\* A data.save that raises may leave an incomplete file behind.
Fail ==
  /\ pc \in Unguarded
  /\ raised' = raised \cup {pc}
  /\ pc' = "aborted"
  /\ UNCHANGED trace
  /\ \/ UNCHANGED file
     \/ pc = "save" /\ file' = [file EXCEPT !.state = "partial"]
  /\ UNCHANGED <<cvVars, simVars, data, writes>>

Next ==
  \/ Load \/ Rg \/ Molinfo \/ Armsd \/ Hyd
  \/ PgAppend \/ PgDone
  \/ PairAppend \/ PairNextOuter \/ PairsDone
  \/ Hbc \/ VillinCvs
  \/ Glob \/ SimsIter \/ SimsDone
  \/ Metr \/ Project \/ FstepSet \/ Save \/ PrintShape
  \/ DropTraj \/ DropDimensions
  \/ Cluster \/ BuildModel \/ PlotTimescales
  \/ Fail

Spec == Init /\ [][Next]_vars

\* ------------------------------------------------------------ properties
InTrace(s) == \E i \in 1..Len(trace) : trace[i] = s

\* the order in which the statements appear in the script
ExpectedOrder ==
  <<"load", "rg", "molinfo", "armsd", "hyd", "pg", "pairs", "hbc", "villin_cvs",
    "glob", "sims", "metr", "project", "fstep", "save", "printShape", "dropTraj",
    "dropDimensions", "cluster", "Model", "plotTimescales">>

Pos(s) == CHOOSE i \in 1..Len(ExpectedOrder) : ExpectedOrder[i] = s

\* C1: the steps run one at a time in the fixed script order: the completed
\* steps always form a prefix of that order (so none runs twice or out of
\* turn), the step in progress is the one right after that prefix, and the
\* script is done exactly when the whole order has been completed.
C1_FixedOrder ==
  /\ Len(trace) <= Len(ExpectedOrder)
  /\ \A i \in 1..Len(trace) : trace[i] = ExpectedOrder[i]
  /\ (pc = "done") <=> (trace = ExpectedOrder)
  /\ pc \notin {"done", "aborted"} => pc = ExpectedOrder[Len(trace) + 1]

C1_Witness == pc = "done" /\ Len(trace) = Len(ExpectedOrder) /\ ngroups > 1 /\ Len(sims) > 1

\* C2: whatever data.dropDimensions does (return or raise), the next step is
\* data.cluster: a raise inside the try block never aborts the script.
C2_DropDimensionsSuppressed ==
  [][pc = "dropDimensions" =>
       pc' = "cluster" /\ trace' = Append(trace, "dropDimensions")]_vars

C2_Witness ==
  /\ "dropDimensions" \in raised
  /\ pc = "done"
  /\ InTrace("cluster") /\ InTrace("Model") /\ InTrace("plotTimescales")

C3_AbortState ==
  \A s \in raised \ {"dropDimensions"} :
    /\ pc = "aborted"
    /\ raised \ {"dropDimensions"} = {s}
    /\ \A i \in 1..Len(trace) : Pos(trace[i]) < Pos(s)
    /\ Pos(s) < Pos("save") => writes = 0 /\ file.state = "absent"

\* C3: a raise in any step other than dropDimensions aborts the script at
\* that step: only earlier steps have completed, nothing runs afterwards, and
\* when the step precedes data.save the output file has not been written.
C3_OtherFailuresAbort == []C3_AbortState /\ [][pc # "aborted"]_vars

C3_Witness ==
  /\ pc = "aborted"
  /\ "project" \in raised
  /\ InTrace("metr")
  /\ file.state = "absent"

C4_FileState ==
  /\ writes <= 1
  /\ ~InTrace("save") => writes = 0 /\ file.state # "written"
  /\ InTrace("save") =>
       /\ writes = 1
       /\ file.state = "written"
       /\ file.content.fstep = Fstep
       /\ file.content.ncols = Len(group_pairs) + 3
       /\ Len(file.content.trajs) = Len(sims)
       /\ \A i \in 1..Len(sims) : file.content.trajs[i].sim = sims[i].simid

C4_FileStep ==
  (file' # file \/ writes' # writes) =>
    /\ pc = "save"
    /\ InTrace("project") /\ InTrace("fstep")
    /\ ~InTrace("dropTraj") /\ ~InTrace("dropDimensions")

\* C4: villin_data.save is written once, by data.save, after project and the
\* fstep assignment and before dropTraj and dropDimensions; it holds one
\* trajectory per simulation and every CV column, and nothing touches it later.
C4_SavedOnceBeforeDrops == []C4_FileState /\ [][C4_FileStep]_vars

C4_Witness ==
  /\ pc = "done"
  /\ writes = 1
  /\ Len(data.trajs) < Len(file.content.trajs)
  /\ data.ncols = 3
  /\ file.content.ncols = 139

\* C5: when the pair loop is over there are ngroups*(ngroups-1)/2 COORDINATION
\* CVs, one for every unordered pair of distinct groups, none pairing a group
\* with itself and none repeated; hbc takes exactly this list as its ARG.
C5_AllPairsOnce ==
  pc \in {"hbc", "villin_cvs"} =>
    /\ Len(group_pairs) = (ngroups * (ngroups - 1)) \div 2
    /\ \A k \in 1..Len(group_pairs) :
         /\ group_pairs[k].GROUPA # group_pairs[k].GROUPB
         /\ \E i, j \in 1..ngroups :
              group_pairs[k].GROUPA = pg[i] /\ group_pairs[k].GROUPB = pg[j]
    /\ \A i, j \in 1..ngroups :
         i < j =>
           Cardinality({k \in 1..Len(group_pairs) :
                          {group_pairs[k].GROUPA, group_pairs[k].GROUPB} = {pg[i], pg[j]}}) = 1
    /\ pc = "villin_cvs" => hbc.cv = "COMBINE" /\ hbc.ARG = group_pairs

C5_Witness ==
  /\ pc = "villin_cvs"
  /\ ngroups = 17
  /\ Len(group_pairs) = 136
  /\ Len(hbc.ARG) = 136

\* C6: the group loop makes one PlumedGroup per hydrophobic residue, in
\* order, with pairwise distinct labels running from hg_1 up to hg_n.
C6_GroupLabels ==
  InTrace("pg") =>
    /\ Len(pg) = Len(hyd_resid)
    /\ \A i \in 1..Len(pg) :
         /\ pg[i].resid = hyd_resid[i]
         /\ pg[i].label = Format("hg", i)
    /\ \A i, j \in 1..Len(pg) : i # j => pg[i].label # pg[j].label

RECURSIVE ExpectedSims(_)
\* the simulations of the first k directories of sets, in order
ExpectedSims(k) ==
  IF k = 0 THEN <<>>
  ELSE ExpectedSims(k - 1) \o [t \in 1..fs[sets[k]] |-> <<sets[k], t>>]

\* C8: while and after the loop over sets runs, sims holds the simulations of
\* the directories processed so far, in glob order, none dropped or replaced,
\* each paired with the structure file of dataset 1.
C8_SimsAccumulate ==
  (pc = "sims" \/ InTrace("sims")) =>
    /\ [i \in 1..Len(sims) |-> <<sims[i].dir, sims[i].traj>>] = ExpectedSims(si - 1)
    /\ InTrace("sims") => si = Len(sets) + 1
    /\ \A i \in 1..Len(sims) : sims[i].molfile = StructFile

C8_Witness ==
  /\ InTrace("sims")
  /\ Len(sets) = 2 /\ sets[1] = 2
  /\ Len(sims) = 2
  /\ sims[1].dir = 2 /\ sims[1].molfile = StructFile
  /\ sims[2].dir = 1 /\ sims[2].simid = 1

====
